---- MODULE Spec2Model ----
(***************************************************************************)
(* A model of the nchain ledger core: transactions and their signatures,  *)
(* blocks and their content hash, the proof-of-history recorder and the   *)
(* Blockchain that owns both.                                              *)
(*                                                                         *)
(* Conventions of the model                                                *)
(*  - An f64 is a record [cls, val]: a finite value (exact integer         *)
(*    arithmetic, rounding is not modelled), NaN, or a signed infinity.    *)
(*  - An Option<T> is a sequence of length 0 (None) or 1 (Some).           *)
(*  - A string that holds a digest is either a literal, Lit(s), or the     *)
(*    SHA-256 of a preimage, Sha256(pre).  SHA-256 is collision free here: *)
(*    two digests are equal exactly when their preimages are.  The first   *)
(*    HexLen hex characters of a digest are HexPrefix(h), a deterministic  *)
(*    arithmetic mix of the preimage.                                      *)
(*  - serde_json is modelled by what it writes: a record of the rendered   *)
(*    fields, where a non-finite f64 is rendered as null.                  *)
(*  - Ed25519 is ideal: a signature verifies exactly under the key that    *)
(*    made it and for the message it was made for.                         *)
(***************************************************************************)
EXTENDS Integers, Sequences, FiniteSets, TLC

VARIABLES
    chain,      \* Blockchain.chain : Vec<Block>
    poh,        \* Blockchain.poh_recorder : PohRecorder
    now,        \* the wall clock read by Utc::now()
    call,       \* the last operation called on the Blockchain, its input and result
    stx,        \* a Transaction value held by a caller (signing layer)
    sig,        \* how stx was built: the steps applied to it so far
    blk,        \* a Block value held by a caller, and how it was built
    mine,       \* the running call of Miner::mine_block: its locals
    adj,        \* the last call of calculate_difficulty_adjustment
    pending     \* P2PNode.pending_transactions : Vec<Transaction>

vars == <<chain, poh, now, call, stx, sig, blk, mine, adj, pending>>

(***************************************************************************)
(* Bounds of the model                                                     *)
(***************************************************************************)
MaxTicks == 3       \* add_block calls explored
MaxTime == 1        \* wall-clock readings 0..MaxTime
HexLen == 5         \* hex characters of a digest the model tracks

(***************************************************************************)
(* f64                                                                     *)
(***************************************************************************)
Fin(n) == [cls |-> "fin", val |-> n]
NaN == [cls |-> "nan", val |-> 0]
PosInf == [cls |-> "inf", val |-> 1]
NegInf == [cls |-> "inf", val |-> -1]

FNeg(x) ==
    IF x.cls = "nan" THEN NaN ELSE [cls |-> x.cls, val |-> 0 - x.val]

FAdd(x, y) ==
    IF x.cls = "nan" \/ y.cls = "nan" THEN NaN
    ELSE IF x.cls = "inf" /\ y.cls = "inf"
         THEN (IF x.val = y.val THEN x ELSE NaN)
    ELSE IF x.cls = "inf" THEN x
    ELSE IF y.cls = "inf" THEN y
    ELSE Fin(x.val + y.val)

FSub(x, y) == FAdd(x, FNeg(y))

\* x < 0.0 : false for NaN
FLtZero(x) == x.cls # "nan" /\ x.val < 0

(***************************************************************************)
(* Option, strings, digests                                                *)
(***************************************************************************)
None == <<>>
Some(x) == <<x>>
IsSome(o) == Len(o) = 1

\* str::trim().is_empty() over the address strings of the model
Blank == {"", " "}
TrimIsEmpty(s) == s \in Blank

Lit(s) == [lit |-> s]
Sha256(pre) == [sha |-> pre]
IsDigest(h) == DOMAIN h = {"sha"}

\* "0".repeat(64)
ZeroHash == Lit("0000000000000000000000000000000000000000000000000000000000000000")
EmptyString == Lit("")

(***************************************************************************)
(* Results                                                                 *)
(***************************************************************************)
Ok == [kind |-> "Ok", message |-> ""]
Err(kind, message) == [kind |-> kind, message |-> message]
IsOk(r) == r.kind = "Ok"

(***************************************************************************)
(* Signing layer (crypto.rs)                                               *)
(***************************************************************************)
Keys == {"k1", "k2"}

\* KeyPair.public_key : the verifying key of signing key k
PublicKeyOf(k) == [vk |-> k]

\* KeyPair::sign
Sign(k, message) == [signer |-> k, message |-> message]

\* PublicKey::verify
Verify(public_key, message, signature) ==
    /\ signature.signer = public_key.vk
    /\ signature.message = message

\* PublicKey::to_address : hex of the first 8 bytes of the key
to_address(public_key) == IF public_key.vk = "k1" THEN "a1f0" ELSE "b2e1"

\* Wallet::address
WalletAddress(k) == to_address(PublicKeyOf(k))

\* a byte string literal such as b"coinbase"
Bytes(s) == [bytes |-> s]

(***************************************************************************)
(* Transaction (transaction.rs)                                            *)
(***************************************************************************)
Transaction(id, from, to, amount, data, timestamp, signature, from_public_key) ==
    [id |-> id, from |-> from, to |-> to, amount |-> amount, data |-> data,
     timestamp |-> timestamp, signature |-> signature,
     from_public_key |-> from_public_key]

\* serde_json's rendering of an f64: a non-finite value is written as null
JsonF64(x) == IF x.cls = "fin" THEN [num |-> x.val] ELSE [null |-> TRUE]

\* Transaction::new without the check of `to`
TransactionNewAnyTo(from, to, amount, data, id, timestamp) ==
    IF TrimIsEmpty(from)
    THEN [res |-> Err("InvalidTransaction", "From address cannot be empty"), tx |-> None]
    ELSE IF FLtZero(amount)
    THEN [res |-> Err("InvalidTransaction", "Amount cannot be negative"), tx |-> None]
    ELSE [res |-> Ok,
          tx |-> Some(Transaction(id, from, to, amount, data, timestamp, None, None))]

\* Transaction::new ; id and timestamp are the Uuid::new_v4() and Utc::now() read
TransactionNew(from, to, amount, data, id, timestamp) ==
    IF TrimIsEmpty(from)
    THEN [res |-> Err("InvalidTransaction", "From address cannot be empty"), tx |-> None]
    ELSE IF TrimIsEmpty(to)
    THEN [res |-> Err("InvalidTransaction", "To address cannot be empty"), tx |-> None]
    ELSE IF FLtZero(amount)
    THEN [res |-> Err("InvalidTransaction", "Amount cannot be negative"), tx |-> None]
    ELSE [res |-> Ok,
          tx |-> Some(Transaction(id, from, to, amount, data, timestamp, None, None))]

\* Transaction::new_signed
TransactionNewSigned(from, to, amount, data, signature, from_public_key, id, timestamp) ==
    LET r == TransactionNew(from, to, amount, data, id, timestamp) IN
    IF ~IsOk(r.res) THEN r
    ELSE [res |-> Ok,
          tx |-> Some([r.tx[1] EXCEPT !.signature = Some(signature),
                                      !.from_public_key = Some(from_public_key)])]

\* Transaction::genesis_transaction
genesis_transaction(timestamp) ==
    Transaction("genesis", "genesis", "genesis", Fin(0), Some("Genesis transaction"),
                timestamp, None, None)

\* Transaction::signable_data : serde_json::to_vec(SignableTransaction)
signable_data(tx) ==
    [id |-> tx.id, from |-> tx.from, to |-> tx.to, amount |-> JsonF64(tx.amount),
     data |-> tx.data, timestamp |-> tx.timestamp]

\* Transaction::verify_signature ; signable_data() cannot fail for this struct,
\* so the signature branch always returns
verify_signature(tx) ==
    IF IsSome(tx.signature) /\ IsSome(tx.from_public_key)
    THEN Verify(tx.from_public_key[1], signable_data(tx), tx.signature[1])
    ELSE tx.from = "genesis" \/ tx.from = "miner"

\* Transaction::serialize : serde_json::to_string(self)
serialize(tx) ==
    [id |-> tx.id, from |-> tx.from, to |-> tx.to, amount |-> JsonF64(tx.amount),
     data |-> tx.data, timestamp |-> tx.timestamp, signature |-> tx.signature,
     from_public_key |-> tx.from_public_key]

\* Transaction::is_coinbase
is_coinbase(tx) == tx.from = "miner"

\* txs.iter().map(|tx| tx.serialize()).collect().join(",") : JSON objects
\* delimit themselves, so the joined string is the sequence of the objects
JoinSerialized(txs) == [i \in 1..Len(txs) |-> serialize(txs[i])]

(***************************************************************************)
(* Block (block.rs)                                                        *)
(***************************************************************************)
\* transactions.iter().find(|tx| tx.is_coinbase()).map(|tx| tx.to.clone())
FirstCoinbaseTo(txs) ==
    LET idx == {i \in 1..Len(txs) : is_coinbase(txs[i])} IN
    IF idx = {} THEN None
    ELSE Some(txs[CHOOSE i \in idx : \A j \in idx : i <= j].to)

\* serde_json::to_string(block) : the fields in declaration order
BlockJson(b) ==
    [index |-> b.index, timestamp |-> b.timestamp,
     transactions |-> JoinSerialized(b.transactions),
     previous_hash |-> b.previous_hash, hash |-> b.hash, poh_hash |-> b.poh_hash,
     nonce |-> b.nonce, difficulty |-> b.difficulty, miner |-> b.miner]

\* Block::calculate_hash : SHA-256 of the JSON of the block with hash blanked
calculate_hash(b) == Sha256(BlockJson([b EXCEPT !.hash = EmptyString]))

\* Block::with_difficulty without its last line, block.hash = block.calculate_hash()
WithDifficultyUnhashed(index, transactions, previous_hash, poh_hash, difficulty, timestamp) ==
    [index |-> index, timestamp |-> timestamp, transactions |-> transactions,
     previous_hash |-> previous_hash, hash |-> EmptyString, poh_hash |-> poh_hash,
     nonce |-> 0, difficulty |-> difficulty, miner |-> FirstCoinbaseTo(transactions)]

\* Block::with_difficulty ; timestamp is the Utc::now() read
BlockWithDifficulty(index, transactions, previous_hash, poh_hash, difficulty, timestamp) ==
    LET block == [index |-> index, timestamp |-> timestamp,
                  transactions |-> transactions, previous_hash |-> previous_hash,
                  hash |-> EmptyString, poh_hash |-> poh_hash, nonce |-> 0,
                  difficulty |-> difficulty, miner |-> FirstCoinbaseTo(transactions)]
    IN [block EXCEPT !.hash = calculate_hash(block)]

\* the default difficulty of Block::new
DefaultDifficulty == 4

\* Block::new
BlockNew(index, transactions, previous_hash, poh_hash, timestamp) ==
    BlockWithDifficulty(index, transactions, previous_hash, poh_hash,
                        DefaultDifficulty, timestamp)

\* Block::genesis
BlockGenesis(timestamp) ==
    LET block == [index |-> 0, timestamp |-> timestamp,
                  transactions |-> <<genesis_transaction(timestamp)>>,
                  previous_hash |-> ZeroHash, hash |-> EmptyString,
                  poh_hash |-> EmptyString, nonce |-> 0, difficulty |-> 1,
                  miner |-> None]
    IN [block EXCEPT !.hash = calculate_hash(block)]

\* Block::is_valid
is_valid(b) ==
    IF b.hash # calculate_hash(b)
    THEN Err("InvalidBlock", "Block hash is invalid")
    ELSE IF b.transactions = <<>>
    THEN Err("InvalidBlock", "Block must contain at least one transaction")
    ELSE IF \E i \in 1..Len(b.transactions) :
               \/ TrimIsEmpty(b.transactions[i].from)
               \/ TrimIsEmpty(b.transactions[i].to)
    THEN Err("InvalidBlock", "Transaction contains empty addresses")
    ELSE Ok

\* Block::transaction_data
transaction_data(b) == JoinSerialized(b.transactions)

(***************************************************************************)
(* PohRecorder (poh.rs)                                                    *)
(***************************************************************************)
DEFAULT_ITERATIONS == 1000
GENESIS_SEED == Lit("poh-genesis-seed-solana-inspired")

\* PohRecorder::with_iterations
PohWithIterations(iterations) ==
    [current_hash |-> GENESIS_SEED, iterations |-> iterations, tick_count |-> 0]

\* PohRecorder::new
PohNew == PohWithIterations(DEFAULT_ITERATIONS)

\* SHA-256 of (previous || data), then SHA-256 applied `iterations` times
PohDigest(previous_hash, data, iterations) ==
    Sha256([previous |-> previous_hash, data |-> data, rounds |-> iterations])

\* PohRecorder::record without self.tick_count += 1
RecordKeepsCount(p, data) ==
    LET final_hash == PohDigest(p.current_hash, data, p.iterations) IN
    [hash |-> final_hash, poh |-> [p EXCEPT !.current_hash = final_hash]]

\* PohRecorder::record : the digest returned and the recorder after the call
record(p, data) ==
    LET final_hash == PohDigest(p.current_hash, data, p.iterations) IN
    [hash |-> final_hash,
     poh |-> [p EXCEPT !.current_hash = final_hash, !.tick_count = @ + 1]]

\* PohRecorder::verify_sequence with one iteration more than record makes
VerifyOneRoundMore(p, previous_hash, data, expected_hash) ==
    PohDigest(previous_hash, data, p.iterations + 1) = expected_hash

\* PohRecorder::verify_sequence
verify_sequence(p, previous_hash, data, expected_hash) ==
    PohDigest(previous_hash, data, p.iterations) = expected_hash

(***************************************************************************)
(* The hex rendering of a digest.  The model tracks the first HexLen       *)
(* characters: a mix of the numbers in the preimage, in which the nonce    *)
(* moves every tracked character.                                          *)
(***************************************************************************)
HexSpace == 16 ^ HexLen
NonceStride == (HexSpace - 1) \div 15

JsonWeight(txs) ==
    LET W[i \in 0..Len(txs)] ==
            IF i = 0 THEN Len(txs)
            ELSE (W[i - 1] * 3 + txs[i].timestamp
                  + (IF "num" \in DOMAIN txs[i].amount
                     THEN txs[i].amount.num % 1000 ELSE 999)) % HexSpace
    IN W[Len(txs)]

RECURSIVE Mix(_)
Mix(h) ==
    IF "lit" \in DOMAIN h THEN (IF h = ZeroHash THEN 0 ELSE 40503)
    ELSE LET pre == h.sha IN
         IF "rounds" \in DOMAIN pre
         THEN (Mix(pre.previous) * 3 + JsonWeight(pre.data) * 7
               + pre.rounds + 25717) % HexSpace
         ELSE (Mix(pre.previous_hash) * 3 + Mix(pre.poh_hash) * 5
               + pre.index * 7 + pre.timestamp * 11 + pre.difficulty * 13
               + JsonWeight(pre.transactions) * 17 + Len(pre.miner) * 19
               + pre.nonce * NonceStride + 9973) % HexSpace

\* the i-th hex character (as a number) of a digest, for i in 1..HexLen
HexDigit(h, i) ==
    IF h = ZeroHash THEN 0 ELSE (Mix(h) \div (16 ^ (HexLen - i))) % 16

\* Miner::calculate_target : "0".repeat(difficulty)
calculate_target(difficulty) == [i \in 1..difficulty |-> 0]

\* Miner::hash_meets_difficulty : hash.starts_with(target); a target longer than
\* the tracked characters is not met
hash_meets_difficulty(hash, target) ==
    /\ Len(target) <= HexLen
    /\ \A i \in 1..Len(target) : HexDigit(hash, i) = target[i]

(***************************************************************************)
(* Blockchain (blockchain.rs)                                              *)
(***************************************************************************)
\* Blockchain::new : the chain and the recorder it builds
BlockchainNew(timestamp) ==
    LET genesis_block == BlockGenesis(timestamp)
        r == record(PohNew, transaction_data(genesis_block))
        with_poh == [genesis_block EXCEPT !.poh_hash = r.hash]
    IN [chain |-> <<[with_poh EXCEPT !.hash = calculate_hash(with_poh)]>>,
        poh |-> r.poh]

\* Blockchain::get_latest_block
get_latest_block(c) ==
    IF c = <<>> THEN [res |-> Err("EmptyBlockchain", "Empty blockchain"), block |-> None]
    ELSE [res |-> Ok, block |-> Some(c[Len(c)])]

\* add_block's answer to an empty batch
\* (mutant EmptyBatchAccepted: the empty batch is a successful no-op)
EmptyBatchAccepted == Ok
EmptyBatchResult == Err("InvalidBlock", "Cannot create block with no transactions")

\* the index add_block gives the new block: previous_index + 1
\* (mutant SameIndex: the + 1 is lost)
SameIndex(previous_block) == previous_block.index
NextIndex(previous_block) == previous_block.index + 1

\* the previous_hash add_block gives the new block: the latest block's hash
\* (mutant LinkToPohHash: the latest block's poh_hash is taken instead)
LinkToPohHash(previous_block) == previous_block.poh_hash
LinkHash(previous_block) == previous_block.hash

\* self.chain.push(new_block)
\* (mutant ReplaceLast: the new block overwrites the latest one)
ReplaceLast(c, new_block) == [c EXCEPT ![Len(c)] = new_block]
Push(c, new_block) == Append(c, new_block)

\* Blockchain::add_block : the result, the chain and the recorder after the call
add_block(c, p, transactions, timestamp) ==
    IF transactions = <<>>
    THEN [res |-> EmptyBatchResult, chain |-> c, poh |-> p]
    ELSE LET latest == get_latest_block(c) IN
         IF ~IsOk(latest.res) THEN [res |-> latest.res, chain |-> c, poh |-> p]
         ELSE LET previous_block == latest.block[1]
                  r == record(p, JoinSerialized(transactions))
                  new_block == BlockNew(NextIndex(previous_block), transactions,
                                        LinkHash(previous_block), r.hash, timestamp)
                  v == is_valid(new_block)
              IN IF IsOk(v)
                 THEN [res |-> Ok, chain |-> Push(c, new_block), poh |-> r.poh]
                 ELSE [res |-> v, chain |-> c, poh |-> r.poh]

\* Blockchain::len
len(c) == Len(c)

\* Blockchain::is_chain_valid : the loop from block i on (1-based here)
RECURSIVE ChainWalk(_, _)
ChainWalk(c, i) ==
    IF i > Len(c) THEN Ok
    ELSE IF ~IsOk(is_valid(c[i])) THEN is_valid(c[i])
    ELSE IF i > 1 /\ c[i].previous_hash # c[i - 1].hash
    THEN [kind |-> "ChainValidation", message |-> "invalid previous hash", at |-> i - 1]
    ELSE IF i > 1 /\ c[i].index # c[i - 1].index + 1
    THEN [kind |-> "ChainValidation", message |-> "invalid index", at |-> i - 1]
    ELSE ChainWalk(c, i + 1)

is_chain_valid(c) ==
    IF c = <<>> THEN Err("ChainValidation", "Blockchain is empty")
    ELSE ChainWalk(c, 1)

\* every transaction of the chain, in chain order
\* the replay loop of get_balance reading the latest block only
LatestBlockOnly(c) == IF c = <<>> THEN <<>> ELSE c[Len(c)].transactions

RECURSIVE Flatten(_)
Flatten(c) ==
    IF c = <<>> THEN <<>> ELSE c[1].transactions \o Flatten(Tail(c))

\* the condition under which get_balance subtracts a transaction's amount
\* (mutant DebitsEveryone: "genesis" is debited like any sender)
DebitsEveryone(tx, address) == tx.from = address
DebitApplies(tx, address) == tx.from = address /\ tx.from # "genesis"

\* Blockchain::get_balance : the replay loop
get_balance(c, address) ==
    LET txs == Flatten(c)
        B[i \in 0..Len(txs)] ==
            IF i = 0 THEN Fin(0)
            ELSE LET credited == IF txs[i].to = address
                                 THEN FAdd(B[i - 1], txs[i].amount) ELSE B[i - 1]
                 IN IF DebitApplies(txs[i], address)
                    THEN FSub(credited, txs[i].amount) ELSE credited
    IN B[Len(txs)]

\* Blockchain::poh_tick_count
poh_tick_count(p) == p.tick_count

(***************************************************************************)
(* Inputs of the ledger: transactions a caller can hand to add_block.      *)
(* The fields of Transaction are public and the type deserializes, so a    *)
(* caller can hold a transaction Transaction::new would have refused.      *)
(***************************************************************************)
TxGenesisAlice == Transaction("t1", "genesis", "alice", Fin(100), None, 0, None, None)
TxAliceBob == Transaction("t2", "alice", "bob", Fin(30), None, 0, None, None)
TxCoinbase ==
    Transaction("t3", "miner", WalletAddress("k1"), Fin(50), Some("Block reward"), 0,
                Some(Sign("k1", Bytes("coinbase"))), Some(PublicKeyOf("k1")))
TxEmptyFrom == Transaction("t4", "", "bob", Fin(10), None, 0, None, None)
TxBlankTo == Transaction("t5", "alice", " ", Fin(10), None, 0, None, None)
TxNaN == Transaction("t6", "bob", "alice", NaN, None, 0, None, None)

Batches ==
    { <<>>,
      <<TxGenesisAlice>>,
      <<TxAliceBob>>,
      <<TxGenesisAlice, TxAliceBob>>,
      <<TxCoinbase, TxAliceBob>>,
      <<TxCoinbase>>,
      <<TxEmptyFrom>>,
      <<TxAliceBob, TxBlankTo>>,
      <<TxNaN>> }

Addresses == {"genesis", "miner", "alice", "bob", WalletAddress("k1"), "", " "}

(***************************************************************************)
(* The ledger as a state machine                                           *)
(***************************************************************************)
NoSig == [phase |-> "none", base |-> None, steps |-> 0]
NoBlk == [path |-> "none", block |-> None, base |-> None, steps |-> 0]
NoMine == [pc |-> "idle", config |-> None, wallet |-> None, args |-> None,
           block |-> None, nonce |-> 0, elapsed |-> 0, res |-> Ok, result |-> None]
NoAdj == [called |-> FALSE, blocks |-> <<>>, current_difficulty |-> 0,
          config |-> None, out |-> [panic |-> FALSE, value |-> 0]]

Init ==
    /\ now = 0
    /\ chain = BlockchainNew(0).chain
    /\ poh = BlockchainNew(0).poh
    /\ call = [op |-> "new", transactions |-> <<>>, res |-> Ok]
    /\ stx = genesis_transaction(0)
    /\ sig = NoSig
    /\ blk = NoBlk
    /\ mine = NoMine
    /\ adj = NoAdj
    /\ pending = <<>>

\* a call of Blockchain::add_block(transactions), the wall clock reading t
AddBlock(transactions, t) ==
    /\ poh.tick_count <= MaxTicks
    /\ LET out == add_block(chain, poh, transactions, t) IN
        /\ chain' = out.chain
        /\ poh' = out.poh
        /\ call' = [op |-> "add_block", transactions |-> transactions, res |-> out.res]
    /\ now' = t
    /\ UNCHANGED <<stx, sig, blk, mine, adj, pending>>

Next ==
    \E transactions \in Batches, t \in {now, now + 1} :
        /\ t <= MaxTime
        /\ AddBlock(transactions, t)

Spec == Init /\ [][Next]_vars

(***************************************************************************)
(* Properties of the Blockchain                                            *)
(***************************************************************************)
IsPrefix(s, t) == Len(s) <= Len(t) /\ \A i \in 1..Len(s) : s[i] = t[i]

\* the sum of the amounts of a sequence of transactions
RECURSIVE FSum(_)
FSum(txs) == IF txs = <<>> THEN Fin(0) ELSE FAdd(txs[1].amount, FSum(Tail(txs)))

Received(c, a) == LET To(tx) == tx.to = a IN FSum(SelectSeq(Flatten(c), To))
Sent(c, a) == LET From(tx) == tx.from = a IN FSum(SelectSeq(Flatten(c), From))

\* C1: after Blockchain::new and any add_block calls, is_chain_valid() is Ok:
\* blocks[0] is the genesis block (index 0, previous_hash 64 zeros, difficulty 1,
\* one genesis transaction), every later block links to its predecessor by hash
\* and index, and every stored hash equals the recomputed hash.
C1_ChainStaysValid ==
    /\ IsOk(is_chain_valid(chain))
    /\ chain[1].index = 0
    /\ chain[1].previous_hash = ZeroHash
    /\ chain[1].difficulty = 1
    /\ Len(chain[1].transactions) = 1
    /\ chain[1].transactions[1].id = "genesis"
    /\ chain[1].transactions[1].from = "genesis"
    /\ \A i \in 2..Len(chain) :
          /\ chain[i].previous_hash = chain[i - 1].hash
          /\ chain[i].index = chain[i - 1].index + 1
    /\ \A i \in 1..Len(chain) : chain[i].hash = calculate_hash(chain[i])

C1_Witness ==
    /\ Len(chain) >= 3
    /\ call.op = "add_block"
    /\ ~IsOk(call.res)

\* C2: when add_block returns an error, the block sequence and the clock state
\* (current_hash and tick_count) are what they were before the call.
C2_FailedAddChangesNothing ==
    [][(call'.op = "add_block" /\ ~IsOk(call'.res))
        => /\ chain' = chain
           /\ poh'.current_hash = poh.current_hash
           /\ poh'.tick_count = poh.tick_count]_vars

\* C3: add_block with an empty transaction list fails with InvalidBlock and
\* leaves the chain (its length and every block) unchanged.
C3_EmptyBatchRejected ==
    [][(call'.op = "add_block" /\ call'.transactions = <<>>)
        => /\ call'.res.kind = "InvalidBlock"
           /\ chain' = chain]_vars

C3_Witness ==
    /\ call.op = "add_block"
    /\ call.transactions = <<>>
    /\ call.res.kind = "InvalidBlock"
    /\ Len(chain) >= 2

\* C4: a successful add_block(txs) grows the chain by one block, whose index is
\* the previous last index + 1, whose previous_hash is the previous last hash,
\* whose transactions are txs in order, whose nonce is 0 and whose poh_hash is
\* the digest the clock returned for the comma-joined serialization of txs.
C4_SuccessfulAddAppendsOne ==
    [][(call'.op = "add_block" /\ IsOk(call'.res))
        => LET last == chain[Len(chain)]
               new == chain'[Len(chain')]
           IN /\ Len(chain') = Len(chain) + 1
              /\ new.index = last.index + 1
              /\ new.previous_hash = last.hash
              /\ new.transactions = call'.transactions
              /\ new.nonce = 0
              /\ new.poh_hash = PohDigest(poh.current_hash,
                                          JoinSerialized(call'.transactions),
                                          poh.iterations)
              /\ new.poh_hash = poh'.current_hash]_vars

C4_Witness ==
    /\ call.op = "add_block"
    /\ IsOk(call.res)
    /\ Len(call.transactions) = 2
    /\ Len(chain) >= 3

\* C5: the chain is never empty (get_latest_block never fails) and every
\* operation leaves the previous block sequence a prefix of the new one, which
\* is at most one block longer.
C5_AppendOnlyNeverEmpty ==
    /\ [](Len(chain) >= 1 /\ IsOk(get_latest_block(chain).res))
    /\ [][IsPrefix(chain, chain') /\ Len(chain') <= Len(chain) + 1]_vars

C5_Witness ==
    /\ Len(chain) >= 4
    /\ call.op = "add_block"

\* C6: get_balance(a) is the sum of the amounts sent to a minus the sum of the
\* amounts sent from a, nothing being subtracted for "genesis"; after
\* [genesis->alice 100] then [alice->bob 30] alice has 70 and bob 30, and on a
\* genesis-only chain get_balance("genesis") is 0.
C6_BalanceIsReceivedMinusSent ==
    /\ \A a \in Addresses :
          get_balance(chain, a) =
              IF a = "genesis" THEN Received(chain, a)
              ELSE FSub(Received(chain, a), Sent(chain, a))
    /\ (Len(chain) = 3 /\ chain[2].transactions = <<TxGenesisAlice>>
                       /\ chain[3].transactions = <<TxAliceBob>>)
          => /\ get_balance(chain, "alice") = Fin(70)
             /\ get_balance(chain, "bob") = Fin(30)
    /\ Len(chain) = 1 => get_balance(chain, "genesis") = Fin(0)

C6_Witness ==
    /\ Len(chain) = 3
    /\ chain[2].transactions = <<TxGenesisAlice>>
    /\ chain[3].transactions = <<TxAliceBob>>
    /\ get_balance(chain, "alice") = Fin(70)

\* C7: "genesis" and "miner" are exempt from deduction: after any appends
\* get_balance("miner") and get_balance("genesis") equal the sum of the amounts
\* sent to them.
C7_SentinelsNeverDebited ==
    \A s \in {"genesis", "miner"} : get_balance(chain, s) = Received(chain, s)

\* C10: every non-genesis block of the chain has a hash with at least
\* `difficulty` leading '0' hex characters, difficulty being the block's own.
C10_AcceptedBlocksMeetTarget ==
    \A i \in 2..Len(chain) :
        hash_meets_difficulty(chain[i].hash, calculate_target(chain[i].difficulty))

(***************************************************************************)
(* The signing layer as a state machine: a caller builds a transaction     *)
(* (api.rs create_transaction, the coinbase of Miner::mine_block, the      *)
(* genesis transaction) and, its fields being public, may then assign any  *)
(* of them.  A behaviour follows one transaction value from the call that *)
(* builds it.                                                              *)
(***************************************************************************)
MaxTamper == 2      \* field assignments explored after a transaction is built

Froms == {"alice", "miner", ""}
Tos == {"bob", " "}
Amounts == {Fin(30), Fin(-1), NaN, PosInf}
Datas == {None, Some("memo")}
Ids == {"id1", "id2"}
Times == 0..MaxTime
Rewards == {Fin(50), Fin(-1)}

SigInit ==
    /\ Init

\* api.rs create_transaction without a private key
CreateUnsigned(from, to, amount, data, id, t) ==
    LET r == TransactionNew(from, to, amount, data, id, t) IN
    /\ sig.phase = "none"
    /\ call' = [op |-> "create_transaction", transactions |-> <<>>, res |-> r.res]
    /\ stx' = IF IsOk(r.res) THEN r.tx[1] ELSE stx
    /\ sig' = IF IsOk(r.res) THEN [phase |-> "unsigned", base |-> None, steps |-> 0]
              ELSE sig
    /\ UNCHANGED <<chain, poh, now, blk, mine, adj, pending>>

\* api.rs create_transaction with the private key k: Transaction::new, then
\* the wallet signs signable_data() and the signature and key are attached
CreateSigned(k, from, to, amount, data, id, t) ==
    LET r == TransactionNew(from, to, amount, data, id, t)
        tx == r.tx[1]
        signed == [tx EXCEPT !.signature = Some(Sign(k, signable_data(tx))),
                             !.from_public_key = Some(PublicKeyOf(k))]
    IN
    /\ sig.phase = "none"
    /\ call' = [op |-> "create_transaction", transactions |-> <<>>, res |-> r.res]
    /\ stx' = IF IsOk(r.res) THEN signed ELSE stx
    /\ sig' = IF IsOk(r.res)
              THEN [phase |-> "signed", base |-> Some(signed), steps |-> 0]
              ELSE sig
    /\ UNCHANGED <<chain, poh, now, blk, mine, adj, pending>>

\* the coinbase transaction Miner::mine_block builds for the wallet with key k
CoinbaseTransaction(k, block_reward, id, t) ==
    TransactionNewSigned("miner", WalletAddress(k), block_reward,
                         Some("Block reward"), Sign(k, Bytes("coinbase")),
                         PublicKeyOf(k), id, t)

MineCoinbase(k, block_reward, id, t) ==
    LET r == CoinbaseTransaction(k, block_reward, id, t) IN
    /\ sig.phase = "none"
    /\ call' = [op |-> "mine_block", transactions |-> <<>>, res |-> r.res]
    /\ stx' = IF IsOk(r.res) THEN r.tx[1] ELSE stx
    /\ sig' = IF IsOk(r.res) THEN [phase |-> "coinbase", base |-> None, steps |-> 0]
              ELSE sig
    /\ UNCHANGED <<chain, poh, now, blk, mine, adj, pending>>

\* Transaction::genesis_transaction()
GenesisTransaction(t) ==
    /\ sig.phase = "none"
    /\ call' = [op |-> "genesis_transaction", transactions |-> <<>>, res |-> Ok]
    /\ stx' = genesis_transaction(t)
    /\ sig' = [phase |-> "genesis", base |-> None, steps |-> 0]
    /\ UNCHANGED <<chain, poh, now, blk, mine, adj, pending>>

\* the values a holder can assign to field f of stx
FieldValues(f) ==
    CASE f = "id" -> Ids
      [] f = "from" -> Froms \cup {"genesis"}
      [] f = "to" -> Tos
      [] f = "amount" -> Amounts
      [] f = "data" -> Datas
      [] f = "timestamp" -> Times
      [] f = "signature" ->
            {None} \cup {Some(Sign(k, signable_data(stx))) : k \in Keys}
      [] f = "from_public_key" -> {None} \cup {Some(PublicKeyOf(k)) : k \in Keys}

TransactionFields ==
    {"id", "from", "to", "amount", "data", "timestamp", "signature", "from_public_key"}

\* an assignment to a public field of the transaction: tx.f = v
SetField(f, v) ==
    /\ sig.steps < MaxTamper
    /\ v # stx[f]
    /\ stx' = [stx EXCEPT ![f] = v]
    /\ sig' = [sig EXCEPT !.phase = "tampered", !.steps = @ + 1]
    /\ call' = [op |-> "set_field", transactions |-> <<>>, res |-> Ok]
    /\ UNCHANGED <<chain, poh, now, blk, mine, adj, pending>>

SigNext ==
    \/ \E from \in Froms, to \in Tos, amount \in Amounts, data \in Datas,
          id \in Ids, t \in Times :
          \/ CreateUnsigned(from, to, amount, data, id, t)
          \/ \E k \in Keys : CreateSigned(k, from, to, amount, data, id, t)
    \/ \E k \in Keys, r \in Rewards, id \in Ids, t \in Times : MineCoinbase(k, r, id, t)
    \/ \E t \in Times : GenesisTransaction(t)
    \/ \E f \in TransactionFields : \E v \in FieldValues(f) : SetField(f, v)

SigSpec == SigInit /\ [][SigNext]_vars

(***************************************************************************)
(* Properties of the signing layer                                         *)
(***************************************************************************)
\* the reference function of the specification for verify_signature
VerifyReference(tx) ==
    IF tx.from \in {"genesis", "miner"} THEN TRUE
    ELSE IF ~IsSome(tx.signature) \/ ~IsSome(tx.from_public_key) THEN FALSE
    ELSE Verify(tx.from_public_key[1], signable_data(tx), tx.signature[1])

\* C8: verify_signature() is true for every transaction from "genesis" or
\* "miner" whatever its signature and from_public_key hold (the coinbase of
\* mine_block included); for any other from it is false when the signature or
\* the key is absent and PublicKey.verify(signable_data, signature) otherwise.
C8_VerifyIsReference == verify_signature(stx) = VerifyReference(stx)

SignedFields(tx) == <<tx.id, tx.from, tx.to, tx.amount, tx.data, tx.timestamp>>

\* C9: a transaction carrying the signature of its own signable_data() and the
\* signer's public key verifies; it no longer verifies once any of id, from, to,
\* amount, data or timestamp differs from what was signed, or when the signature
\* was made by another key than the attached one.
C9_SignatureRoundTrip ==
    /\ sig.phase = "signed" => verify_signature(stx)
    /\ (/\ IsSome(sig.base)
        /\ stx.signature = sig.base[1].signature
        /\ stx.from_public_key = sig.base[1].from_public_key
        /\ SignedFields(stx) # SignedFields(sig.base[1]))
          => ~verify_signature(stx)
    /\ (/\ IsSome(stx.signature)
        /\ IsSome(stx.from_public_key)
        /\ stx.signature[1].signer # stx.from_public_key[1].vk)
          => ~verify_signature(stx)

(***************************************************************************)
(* Blocks as values and the miner.  A caller builds one block, by a        *)
(* constructor, by the chain or by Miner::mine_block, and, the fields      *)
(* being public, may then assign one of them.  mine_block is followed      *)
(* through its nonce search, one loop iteration per step, beside a         *)
(* monotonic clock (Instant) that advances on its own.                     *)
(***************************************************************************)
MaxNonce == 17      \* loop iterations explored before the search waits for the clock

\* MiningConfig
MiningConfig(difficulty, block_reward, max_block_time, interval, target_block_time) ==
    [difficulty |-> difficulty, block_reward |-> block_reward,
     max_block_time |-> max_block_time,
     difficulty_adjustment_interval |-> interval,
     target_block_time |-> target_block_time]

\* MiningConfig::default, durations in whole seconds
DefaultMiningConfig == MiningConfig(4, Fin(50), 600, 10, 60)

\* mine_block: block_transactions.insert(0, coinbase_transaction)
CoinbaseLast(coinbase, transactions) == transactions \o <<coinbase>>

WithCoinbase(coinbase, transactions) == <<coinbase>> \o transactions

\* mine_block: block.hash = hash, on success
Unsealed(block, hash) == block

Sealed(block, hash) == [block EXCEPT !.hash = hash]

\* mine_block: start_time.elapsed() > self.config.max_block_time
NeverExpired(elapsed, max_block_time) == FALSE

Expired(elapsed, max_block_time) == elapsed > max_block_time

\* MiningResult ; mining_time and hash_rate are not modelled
MiningResult(block, nonce) == [block |-> block, nonce |-> nonce]

Difficulties == {0, 1, 2}
MaxBlockTimes == {0, 1}
MineConfigs ==
    {[DefaultMiningConfig EXCEPT !.difficulty = d, !.block_reward = r,
                                 !.max_block_time = m] :
        d \in Difficulties, r \in Rewards, m \in MaxBlockTimes}
MineBatches == {<<>>, <<TxAliceBob>>, <<TxCoinbase, TxAliceBob>>}

\* mine_block up to the loop: the coinbase transaction, the block, nonce = 0
MineStart(k, config, index, transactions, previous_hash, poh_hash, id, t) ==
    LET r == CoinbaseTransaction(k, config.block_reward, id, t)
        args == [index |-> index, transactions |-> transactions,
                 previous_hash |-> previous_hash, poh_hash |-> poh_hash]
        began == [NoMine EXCEPT !.config = Some(config), !.wallet = Some(k),
                                !.args = Some(args)]
    IN
    /\ blk.path = "none"
    /\ mine.pc = "idle"
    /\ mine' = IF ~IsOk(r.res)
               THEN [began EXCEPT !.pc = "failed", !.res = r.res]
               ELSE [began EXCEPT
                        !.pc = "search",
                        !.block = Some(BlockNew(index,
                                                WithCoinbase(r.tx[1], transactions),
                                                previous_hash, poh_hash, t))]
    /\ UNCHANGED <<chain, poh, now, call, stx, sig, blk, adj, pending>>

\* one iteration of the loop of mine_block
MineStep ==
    LET config == mine.config[1]
        block == [mine.block[1] EXCEPT !.nonce = mine.nonce]
        hash == calculate_hash(block)
        target == calculate_target(config.difficulty)
    IN
    /\ mine.pc = "search"
    /\ mine.nonce < MaxNonce \/ Expired(mine.elapsed, config.max_block_time)
    /\ IF hash_meets_difficulty(hash, target)
       THEN /\ mine' = [mine EXCEPT
                            !.pc = "done",
                            !.block = Some(Sealed(block, hash)),
                            !.result = Some(MiningResult(Sealed(block, hash),
                                                         mine.nonce))]
            /\ blk' = [NoBlk EXCEPT !.path = "mined",
                                    !.block = Some(Sealed(block, hash))]
       ELSE /\ mine' = IF Expired(mine.elapsed, config.max_block_time)
                       THEN [mine EXCEPT
                                !.pc = "timeout", !.block = Some(block),
                                !.nonce = @ + 1,
                                !.res = Err("InvalidBlock", "Mining timeout exceeded")]
                       ELSE [mine EXCEPT !.block = Some(block), !.nonce = @ + 1]
            /\ blk' = blk
    /\ UNCHANGED <<chain, poh, now, call, stx, sig, adj, pending>>

\* the monotonic clock behind start_time.elapsed() advances by a second; past
\* max_block_time further seconds change nothing and are not counted
ClockTick ==
    /\ mine.pc = "search"
    /\ mine.elapsed <= mine.config[1].max_block_time
    /\ mine' = [mine EXCEPT !.elapsed = @ + 1]
    /\ UNCHANGED <<chain, poh, now, call, stx, sig, blk, adj, pending>>

TxInf == [TxNaN EXCEPT !.amount = PosInf]

BlockIndexes == {0, 1}
BlockBatches == {<<>>, <<TxAliceBob>>, <<TxCoinbase, TxAliceBob>>, <<TxNaN>>,
                 <<TxAliceBob, TxBlankTo>>}
PreviousHashes == {ZeroHash, BlockGenesis(0).hash}
PohHashes == {EmptyString, record(PohNew, <<>>).hash}
BlockDifficulties == {1, DefaultDifficulty}

Built(path, block) == [NoBlk EXCEPT !.path = path, !.block = Some(block)]

\* Block::new
NewBlock(index, transactions, previous_hash, poh_hash, t) ==
    /\ blk.path = "none"
    /\ mine.pc = "idle"
    /\ blk' = Built("new", BlockNew(index, transactions, previous_hash, poh_hash, t))
    /\ UNCHANGED <<chain, poh, now, call, stx, sig, mine, adj, pending>>

\* Block::with_difficulty
NewWithDifficulty(index, transactions, previous_hash, poh_hash, difficulty, t) ==
    /\ blk.path = "none"
    /\ mine.pc = "idle"
    /\ blk' = Built("with_difficulty",
                    BlockWithDifficulty(index, transactions, previous_hash,
                                        poh_hash, difficulty, t))
    /\ UNCHANGED <<chain, poh, now, call, stx, sig, mine, adj, pending>>

\* Block::genesis
NewGenesis(t) ==
    /\ blk.path = "none"
    /\ mine.pc = "idle"
    /\ blk' = Built("genesis", BlockGenesis(t))
    /\ UNCHANGED <<chain, poh, now, call, stx, sig, mine, adj, pending>>

\* the genesis block of Blockchain::new
ChainGenesis(t) ==
    /\ blk.path = "none"
    /\ mine.pc = "idle"
    /\ blk' = Built("chain_genesis", get_latest_block(BlockchainNew(t).chain).block[1])
    /\ UNCHANGED <<chain, poh, now, call, stx, sig, mine, adj, pending>>

\* the block a successful Blockchain::add_block pushes
ChainAdd(transactions, t) ==
    LET out == add_block(chain, poh, transactions, t) IN
    /\ blk.path = "none"
    /\ mine.pc = "idle"
    /\ IsOk(out.res)
    /\ blk' = Built("add_block", get_latest_block(out.chain).block[1])
    /\ UNCHANGED <<chain, poh, now, call, stx, sig, mine, adj, pending>>

BlockFields ==
    {"index", "timestamp", "transactions", "previous_hash", "poh_hash", "nonce",
     "difficulty", "miner", "hash"}

\* the values a holder can assign to field f of the block
BlockFieldValues(f) ==
    CASE f = "index" -> BlockIndexes
      [] f = "timestamp" -> Times
      [] f = "transactions" -> BlockBatches \cup {<<TxInf>>}
      [] f = "previous_hash" -> PreviousHashes
      [] f = "poh_hash" -> PohHashes
      [] f = "nonce" -> {0, 1}
      [] f = "difficulty" -> BlockDifficulties
      [] f = "miner" -> {None} \cup {Some(WalletAddress(k)) : k \in Keys}
      [] f = "hash" -> {EmptyString, BlockGenesis(0).hash}

\* an assignment to a public field of a built block: block.f = v ; a behaviour
\* follows a block through one such assignment
SetBlockField(f, v) ==
    /\ blk.path # "none"
    /\ blk.steps = 0
    /\ v # blk.block[1][f]
    /\ blk' = [blk EXCEPT !.block = Some([blk.block[1] EXCEPT ![f] = v]),
                          !.base = blk.block, !.steps = 1]
    /\ UNCHANGED <<chain, poh, now, call, stx, sig, mine, adj, pending>>

BlockInit ==
    /\ Init

BlockNext ==
    \/ \E index \in BlockIndexes, transactions \in BlockBatches,
          previous_hash \in PreviousHashes, poh_hash \in PohHashes, t \in Times :
          \/ NewBlock(index, transactions, previous_hash, poh_hash, t)
          \/ \E difficulty \in BlockDifficulties :
                NewWithDifficulty(index, transactions, previous_hash, poh_hash,
                                  difficulty, t)
    \/ \E t \in Times : NewGenesis(t)
    \/ \E t \in Times : ChainGenesis(t)
    \/ \E transactions \in Batches, t \in Times : ChainAdd(transactions, t)
    \/ \E k \in Keys, config \in MineConfigs, transactions \in MineBatches,
          poh_hash \in PohHashes, t \in Times :
          MineStart(k, config, 1, transactions, BlockGenesis(0).hash, poh_hash,
                    "id1", t)
    \/ MineStep
    \/ ClockTick
    \/ \E f \in BlockFields : \E v \in BlockFieldValues(f) : SetBlockField(f, v)

BlockSpec == BlockInit /\ [][BlockNext]_vars

\* the search loop keeps running and the clock keeps advancing
BlockFairSpec == BlockSpec /\ WF_vars(MineStep) /\ WF_vars(ClockTick)

(***************************************************************************)
(* Properties of the miner and of blocks                                   *)
(***************************************************************************)
MinedBlock == mine.result[1].block

\* C11: when mine_block succeeds, the returned block's stored hash is
\* calculate_hash of the block, the hash starts with config.difficulty '0'
\* characters, the result's nonce is the block's nonce, and no smaller nonce
\* n >= 0 gives a hash that meets the target.
C11_MinedBlockIsSealedAtFirstNonce ==
    mine.pc = "done" =>
        LET b == MinedBlock
            difficulty == mine.config[1].difficulty
        IN
        /\ b.hash = calculate_hash(b)
        /\ difficulty <= HexLen
        /\ \A i \in 1..difficulty : HexDigit(b.hash, i) = 0
        /\ mine.result[1].nonce = b.nonce
        /\ \A n \in 0..(b.nonce - 1) :
              \E i \in 1..difficulty :
                  HexDigit(calculate_hash([b EXCEPT !.nonce = n]), i) # 0

C11_Witness ==
    /\ mine.pc = "done"
    /\ mine.config[1].difficulty >= 1
    /\ MinedBlock.nonce > 1

C13_MinedBlockStartsWithCoinbase ==
    mine.pc = "done" =>
        LET b == MinedBlock
            args == mine.args[1]
            address == to_address(PublicKeyOf(mine.wallet[1]))
        IN
        /\ Len(b.transactions) = Len(args.transactions) + 1
        /\ b.transactions[1].from = "miner"
        /\ b.transactions[1].to = address
        /\ b.transactions[1].amount = mine.config[1].block_reward
        /\ \A i \in 1..Len(args.transactions) :
              b.transactions[i + 1] = args.transactions[i]
        /\ b.miner = Some(address)
        /\ b.index = args.index
        /\ b.previous_hash = args.previous_hash
        /\ b.poh_hash = args.poh_hash

C13_Witness ==
    /\ mine.pc = "done"
    /\ \E i \in 1..Len(mine.args[1].transactions) :
          /\ mine.args[1].transactions[i].from = "miner"
          /\ mine.args[1].transactions[i].to # MinedBlock.miner[1]

NoBlankAddress(transactions) ==
    \A i \in 1..Len(transactions) :
        /\ transactions[i].from \notin Blank
        /\ transactions[i].to \notin Blank

\* C15: is_valid() is Ok exactly when the stored hash is the recomputed one,
\* the transaction list is non-empty and no transaction has a blank from or
\* to, and is InvalidBlock otherwise; and assigning a different value to any
\* single field of a valid block, the hash not recomputed, makes is_valid()
\* fail.
C15_ValidityAndSingleFieldTamper ==
    blk.path # "none" =>
        LET b == blk.block[1] IN
        /\ IsOk(is_valid(b)) <=> /\ b.hash = calculate_hash(b)
                                 /\ b.transactions # <<>>
                                 /\ NoBlankAddress(b.transactions)
        /\ ~IsOk(is_valid(b)) => is_valid(b).kind = "InvalidBlock"
        /\ (blk.steps = 1 /\ IsOk(is_valid(blk.base[1]))) => ~IsOk(is_valid(b))

\* C16: a block fresh from any construction path (Block::new, with_difficulty,
\* genesis, the genesis of Blockchain::new, a block pushed by add_block, a
\* block returned by a successful mine_block) has hash = calculate_hash.
C16_ConstructedBlocksAreSealed ==
    (blk.path # "none" /\ blk.steps = 0) =>
        blk.block[1].hash = calculate_hash(blk.block[1])

C16_Witness ==
    /\ blk.path = "add_block"
    /\ blk.steps = 0
    /\ blk.block[1].index = 1
    /\ blk.block[1].hash = calculate_hash(blk.block[1])

(***************************************************************************)
(* Difficulty adjustment.  Miner::calculate_difficulty_adjustment is a     *)
(* function of the configuration, the blocks' timestamps and the current   *)
(* difficulty; timestamps and durations are whole seconds.  The f64 ratio  *)
(* is kept as a fraction, or as the IEEE result of a division by zero.     *)
(* The u32 difficulty is narrowed to U32Bits bits: u32::MAX is U32Max.     *)
(***************************************************************************)
MaxAdjBlocks == 3   \* blocks supplied to one call
MaxAdjTime == 5     \* largest block timestamp supplied

U32Bits == 4        \* the width given to the u32 current_difficulty, so that it can overflow

\* u32::MAX at that width
U32Max == 2 ^ U32Bits - 1

\* time_taken.num_seconds() as f64 / expected_duration.num_seconds() as f64
Ratio(n, d) ==
    IF d = 0 THEN (IF n > 0 THEN PosInf ELSE IF n < 0 THEN NegInf ELSE NaN)
    ELSE [cls |-> "fin", num |-> n, den |-> d]

\* ratio < 0.5
RatioBelowHalf(r) ==
    IF r.cls = "fin" THEN (IF r.den > 0 THEN 2 * r.num < r.den ELSE 2 * r.num > r.den)
    ELSE r = NegInf

\* ratio > 2.0
RatioAboveTwo(r) ==
    IF r.cls = "fin" THEN (IF r.den > 0 THEN r.num > 2 * r.den ELSE r.num < 2 * r.den)
    ELSE r = PosInf

\* current_difficulty + 1 on a u32: a panic when the build checks overflow,
\* a wrap when it does not
Increase(current_difficulty, overflow_checks) ==
    IF current_difficulty + 1 > U32Max
    THEN [panic |-> overflow_checks, value |-> 0]
    ELSE [panic |-> FALSE, value |-> current_difficulty + 1]

\* if current_difficulty > 1 { current_difficulty - 1 } else { 1 }
DecreaseUnfloored(current_difficulty) ==
    [panic |-> FALSE, value |-> current_difficulty - 1]

Decrease(current_difficulty) ==
    [panic |-> FALSE,
     value |-> IF current_difficulty > 1 THEN current_difficulty - 1 ELSE 1]

\* Miner::calculate_difficulty_adjustment ; overflow_checks is the build's
\* setting, the answer is the returned u32 or a panic
calculate_difficulty_adjustment(config, blocks, current_difficulty, overflow_checks) ==
    LET interval == config.difficulty_adjustment_interval
        unchanged == [panic |-> FALSE, value |-> current_difficulty]
    IN
    IF Len(blocks) < interval THEN unchanged
    ELSE
        LET recent_blocks == SubSeq(blocks, Len(blocks) - interval + 1, Len(blocks)) IN
        IF ~(Len(recent_blocks) >= 2) THEN unchanged
        ELSE
            LET start_time == recent_blocks[1].timestamp
                end_time == recent_blocks[Len(recent_blocks)].timestamp
                time_taken == end_time - start_time
                expected_time == config.target_block_time * interval
                ratio == Ratio(time_taken, expected_time)
            IN
            IF RatioBelowHalf(ratio) THEN Increase(current_difficulty, overflow_checks)
            ELSE IF RatioAboveTwo(ratio) THEN Decrease(current_difficulty)
            ELSE unchanged

AdjIntervals == 0..MaxAdjBlocks
AdjTargets == {0, 1}
AdjDifficulties == {0, 1, 2, U32Max}
AdjConfigs ==
    {[DefaultMiningConfig EXCEPT !.difficulty_adjustment_interval = i,
                                 !.target_block_time = s] :
        i \in AdjIntervals, s \in AdjTargets}
AdjTimestamps ==
    UNION {[1..n -> 0..MaxAdjTime] : n \in 0..MaxAdjBlocks}

\* the blocks handed to a call: any blocks with the timestamps ts
AdjBlocks(ts) ==
    [i \in 1..Len(ts) |-> BlockNew(i, <<TxAliceBob>>, ZeroHash, EmptyString, ts[i])]

\* a call of calculate_difficulty_adjustment ; a behaviour holds one call
Adjust(config, ts, current_difficulty, overflow_checks) ==
    /\ ~adj.called
    /\ adj' = [called |-> TRUE, blocks |-> AdjBlocks(ts),
               current_difficulty |-> current_difficulty, config |-> Some(config),
               out |-> calculate_difficulty_adjustment(config, AdjBlocks(ts),
                                                       current_difficulty,
                                                       overflow_checks)]
    /\ UNCHANGED <<chain, poh, now, call, stx, sig, blk, mine, pending>>

AdjInit ==
    /\ Init

AdjNext ==
    /\ ~adj.called
    /\ \E config \in AdjConfigs, ts \in AdjTimestamps, d \in AdjDifficulties,
          overflow_checks \in BOOLEAN :
           Adjust(config, ts, d, overflow_checks)

AdjSpec == AdjInit /\ [][AdjNext]_vars

(***************************************************************************)
(* Properties of the difficulty adjustment                                 *)
(***************************************************************************)
AdjInterval == adj.config[1].difficulty_adjustment_interval

\* whole seconds between the first and the last of the most recent
\* `interval` blocks (0 when there is none)
AdjSeconds ==
    LET n == Len(adj.blocks) IN
    IF AdjInterval = 0 THEN 0
    ELSE adj.blocks[n].timestamp - adj.blocks[n - AdjInterval + 1].timestamp

\* target_block_time * interval, in seconds
AdjExpected == adj.config[1].target_block_time * AdjInterval

\* the difficulty the ratio rule gives
AdjByRatio ==
    LET d == adj.current_difficulty
        s == AdjSeconds
        e == AdjExpected
        below == IF e > 0 THEN 2 * s < e ELSE s < 0
        above == IF e > 0 THEN s > 2 * e ELSE s > 0
    IN IF below THEN d + 1
       ELSE IF above THEN (IF d - 1 > 1 THEN d - 1 ELSE 1)
       ELSE d

AdjWithinOne ==
    adj.current_difficulty >= 1 =>
        /\ adj.out.value >= 1
        /\ adj.out.value - adj.current_difficulty \in {-1, 0, 1}

ValidBatches == {<<TxAliceBob>>, <<TxCoinbase, TxAliceBob>>, <<TxNaN>>}

\* block i of the chain gets field f replaced by v
TamperChain(i, f, v, rehash) ==
    LET changed == [chain[i] EXCEPT ![f] = v]
        stored == IF rehash /\ f # "hash"
                  THEN [changed EXCEPT !.hash = calculate_hash(changed)]
                  ELSE changed
    IN
    /\ call.op # "tamper"
    /\ v # chain[i][f]
    /\ chain' = [chain EXCEPT ![i] = stored]
    /\ call' = [op |-> "tamper", transactions |-> <<>>, res |-> Ok,
                at |-> i, field |-> f, rehash |-> rehash]
    /\ UNCHANGED <<poh, now, stx, sig, blk, mine, adj, pending>>

ValidateInit ==
    /\ Init

ValidateNext ==
    \/ /\ call.op # "tamper"
       /\ \E transactions \in ValidBatches, t \in {now, now + 1} :
             /\ t <= MaxTime
             /\ AddBlock(transactions, t)
    \/ /\ call.op # "tamper"
       /\ \E i \in 1..Len(chain), f \in BlockFields, rehash \in BOOLEAN :
             \E v \in BlockFieldValues(f) : TamperChain(i, f, v, rehash)

ValidateSpec == ValidateInit /\ [][ValidateNext]_vars

\* block i of c fails one of the checks is_chain_valid() makes on it
Offending(c, i) ==
    \/ ~IsOk(is_valid(c[i]))
    \/ /\ i > 1
       /\ \/ c[i].previous_hash # c[i - 1].hash
          \/ c[i].index # c[i - 1].index + 1

\* C17: when is_chain_valid() fails on a non-empty block sequence, the error
\* is a ChainValidation that names the position of the first block failing
\* any check (its own validity, the previous_hash link, the index step).
C17_FirstOffenderReported ==
    LET r == is_chain_valid(chain) IN
    (chain # <<>> /\ ~IsOk(r)) =>
        /\ r.kind = "ChainValidation"
        /\ "at" \in DOMAIN r
        /\ Offending(chain, r.at + 1)
        /\ \A j \in 1..r.at : ~Offending(chain, j)

(***************************************************************************)
(* The proof-of-history recorder on its own: one PohRecorder, built by     *)
(* with_iterations, and the calls of its public methods.                   *)
(***************************************************************************)
PohIterationCounts == {0, 1, DEFAULT_ITERATIONS}
PohDatas == {JoinSerialized(b) : b \in ValidBatches \cup {<<>>}}

PohCall(op) ==
    [op |-> op, transactions |-> <<>>, res |-> Ok, previous |-> GENESIS_SEED,
     data |-> <<>>, hash |-> GENESIS_SEED, answer |-> FALSE]

PohInit ==
    /\ \E iterations \in PohIterationCounts : poh = PohWithIterations(iterations)
    /\ call = PohCall("with_iterations")
    /\ now = 0
    /\ chain = <<>>
    /\ stx = genesis_transaction(0)
    /\ sig = NoSig
    /\ blk = NoBlk
    /\ mine = NoMine
    /\ adj = NoAdj
    /\ pending = <<>>

\* poh.record(data)
PohRecord(data) ==
    /\ poh.tick_count <= MaxTicks
    /\ poh' = record(poh, data).poh
    /\ call' = [PohCall("record") EXCEPT !.previous = poh.current_hash,
                                         !.data = data,
                                         !.hash = record(poh, data).hash]
    /\ UNCHANGED <<chain, now, stx, sig, blk, mine, adj, pending>>

\* poh.verify_sequence(previous_hash, data, expected_hash)
PohVerify(previous_hash, data, expected_hash) ==
    /\ call' = [PohCall("verify_sequence") EXCEPT
                    !.previous = previous_hash, !.data = data,
                    !.hash = expected_hash,
                    !.answer = verify_sequence(poh, previous_hash, data,
                                               expected_hash)]
    /\ UNCHANGED <<chain, poh, now, stx, sig, blk, mine, adj, pending>>

\* poh.tick_count() and poh.current_hash()
PohRead(op) ==
    /\ call' = [PohCall(op) EXCEPT !.hash = poh.current_hash]
    /\ UNCHANGED <<chain, poh, now, stx, sig, blk, mine, adj, pending>>

PohNext ==
    \/ \E data \in PohDatas : PohRecord(data)
    \/ \E previous_hash \in {GENESIS_SEED, call.previous, poh.current_hash},
          data \in PohDatas, expected_hash \in {call.hash, poh.current_hash} :
          PohVerify(previous_hash, data, expected_hash)
    \/ \E op \in {"tick_count", "current_hash"} : PohRead(op)

PohSpec == PohInit /\ [][PohNext]_vars

(***************************************************************************)
(* Properties of the recorder                                              *)
(***************************************************************************)
\* C18: every record(data) raises tick_count by exactly 1 and sets
\* current_hash to the digest it returns, which depends only on the previous
\* current_hash, the data and the iteration count; verify_sequence,
\* tick_count() and current_hash() leave the recorder as it was.
C18_RecordAdvancesClock ==
    [][/\ call'.op = "record" =>
            /\ poh'.tick_count = poh.tick_count + 1
            /\ poh'.current_hash = call'.hash
            /\ poh'.iterations = poh.iterations
            /\ call'.hash = Sha256([previous |-> poh.current_hash,
                                    data |-> call'.data,
                                    rounds |-> poh.iterations])
       /\ call'.op \in {"verify_sequence", "tick_count", "current_hash"} =>
            poh' = poh]_vars

C18_Witness ==
    /\ call.op = "record"
    /\ poh.tick_count = 2
    /\ poh.current_hash = call.hash

\* C19: on one recorder, verify_sequence(prev, data, record(data)) is true
\* for every tick, prev being current_hash just before the record (the
\* genesis seed for the first tick).
C19_RecordVerifies ==
    [][/\ poh.tick_count = 0 => poh.current_hash = GENESIS_SEED
       /\ call'.op = "record" =>
            verify_sequence(poh', poh.current_hash, call'.data, call'.hash)]_vars

C19_Witness ==
    /\ call.op = "verify_sequence"
    /\ call.previous = GENESIS_SEED
    /\ poh.tick_count = 1
    /\ call.hash = poh.current_hash
    /\ call.answer

(***************************************************************************)
(* The constructors of Transaction as functions of their arguments: one    *)
(* call of Transaction::new or Transaction::new_signed per behaviour.      *)
(***************************************************************************)
TxFroms == Froms \cup Blank
TxTos == Tos \cup Blank
TxAmounts == Amounts \cup {NegInf, Fin(0)}

TxCall(op, args, r) ==
    [op |-> op, transactions |-> <<>>, res |-> r.res, args |-> args, tx |-> r.tx]

\* Transaction::new(from, to, amount, data)
CallNew(from, to, amount, data, id, t) ==
    LET r == TransactionNew(from, to, amount, data, id, t)
        args == [from |-> from, to |-> to, amount |-> amount, data |-> data,
                 signature |-> None, from_public_key |-> None]
    IN
    /\ call' = TxCall("Transaction::new", args, r)
    /\ stx' = IF IsOk(r.res) THEN r.tx[1] ELSE stx
    /\ UNCHANGED <<chain, poh, now, sig, blk, mine, adj, pending>>

\* Transaction::new_signed(from, to, amount, data, signature, from_public_key)
CallNewSigned(from, to, amount, data, signature, from_public_key, id, t) ==
    LET r == TransactionNewSigned(from, to, amount, data, signature,
                                  from_public_key, id, t)
        args == [from |-> from, to |-> to, amount |-> amount, data |-> data,
                 signature |-> Some(signature),
                 from_public_key |-> Some(from_public_key)]
    IN
    /\ call' = TxCall("Transaction::new_signed", args, r)
    /\ stx' = IF IsOk(r.res) THEN r.tx[1] ELSE stx
    /\ UNCHANGED <<chain, poh, now, sig, blk, mine, adj, pending>>

TxInit ==
    /\ Init

TxNext ==
    /\ call.op = "new"
    /\ \E from \in TxFroms, to \in TxTos, amount \in TxAmounts, data \in Datas,
          id \in Ids, t \in Times :
          \/ CallNew(from, to, amount, data, id, t)
          \/ \E k \in Keys :
                CallNewSigned(from, to, amount, data, Sign(k, Bytes("coinbase")),
                              PublicKeyOf(k), id, t)

TxSpec == TxInit /\ [][TxNext]_vars

(***************************************************************************)
(* Properties of the constructors                                          *)
(***************************************************************************)
Negative(x) == (x.cls = "fin" /\ x.val < 0) \/ x = NegInf

\* C20: Transaction::new fails with InvalidTransaction when from or to is
\* empty after trimming or when amount < 0; otherwise it returns a
\* transaction with the given from, to, amount and data and with signature and
\* from_public_key unset.  new_signed validates the same way, and then
\* attaches the signature and the key.
C20_ConstructorValidates ==
    call.op \in {"Transaction::new", "Transaction::new_signed"} =>
        LET a == call.args IN
        IF a.from \in Blank \/ a.to \in Blank \/ Negative(a.amount)
        THEN /\ call.res.kind = "InvalidTransaction"
             /\ call.tx = None
        ELSE /\ IsOk(call.res)
             /\ stx = call.tx[1]
             /\ stx.from = a.from
             /\ stx.to = a.to
             /\ stx.amount = a.amount
             /\ stx.data = a.data
             /\ stx.signature = a.signature
             /\ stx.from_public_key = a.from_public_key
             /\ call.op = "Transaction::new" =>
                    stx.signature = None /\ stx.from_public_key = None

C20_Witness ==
    /\ call.op = "Transaction::new_signed"
    /\ call.args.from \notin Blank
    /\ call.args.to \in Blank
    /\ call.res.kind = "InvalidTransaction"

(***************************************************************************)
(* Properties of the ledger: replay, the clock, the stored transactions    *)
(***************************************************************************)
\* the addresses a batch involves
Involved(transactions) ==
    {transactions[i].from : i \in 1..Len(transactions)}
        \cup {transactions[i].to : i \in 1..Len(transactions)}

\* the chain Blockchain::new and one add_block per batch build
RECURSIVE Appended(_)
Appended(batches) ==
    IF batches = <<>> THEN BlockchainNew(0)
    ELSE LET before == Appended(SubSeq(batches, 1, Len(batches) - 1))
             out == add_block(before.chain, before.poh, batches[Len(batches)], 0)
         IN [chain |-> out.chain, poh |-> out.poh]

\* the batches of the chain's blocks after genesis, the last two exchanged
LastTwoExchanged ==
    LET n == Len(chain) IN
    [i \in 1..(n - 1) |->
        IF i = n - 1 THEN chain[n - 1].transactions
        ELSE IF i = n - 2 THEN chain[n].transactions
        ELSE chain[i + 1].transactions]

\* C21: for blocks B1 and B2 that involve disjoint addresses, every address
\* has the same get_balance after appending B1 then B2 as after appending B2
\* then B1.
C21_DisjointBlocksCommute ==
    LET n == Len(chain) IN
    (n >= 3 /\ Involved(chain[n - 1].transactions)
                  \cap Involved(chain[n].transactions) = {}) =>
        LET other == Appended(LastTwoExchanged).chain IN
        /\ Len(other) = n
        /\ other[n - 1].transactions = chain[n].transactions
        /\ other[n].transactions = chain[n - 1].transactions
        /\ \A a \in Addresses : get_balance(chain, a) = get_balance(other, a)

C21_Witness ==
    /\ Len(chain) = 3
    /\ chain[2].transactions = <<TxGenesisAlice, TxAliceBob>>
    /\ chain[3].transactions = <<TxCoinbase>>
    /\ get_balance(chain, "alice") = Fin(70)
    /\ get_balance(chain, WalletAddress("k1")) = Fin(50)

\* C22: when a field of blocks[i], i < last, of a valid chain is replaced and
\* blocks[i].hash recomputed so that blocks[i].is_valid() passes,
\* is_chain_valid() fails with a ChainValidation error at block i + 1, whose
\* previous_hash is no longer blocks[i].hash.
C22_RehashedTamperDetected ==
    (/\ call.op = "tamper"
     /\ call.rehash
     /\ call.field # "hash"
     /\ call.at < Len(chain)
     /\ IsOk(is_valid(chain[call.at]))) =>
        LET r == is_chain_valid(chain) IN
        /\ ~IsOk(r)
        /\ r.kind = "ChainValidation"
        /\ r.message = "invalid previous hash"
        /\ r.at = call.at
        /\ chain[call.at + 1].previous_hash # chain[call.at].hash

(***************************************************************************)
(* The pending transactions of a P2PNode (network.rs): a list that the     *)
(* node's three methods change.                                            *)
(***************************************************************************)
\* add_pending_transaction without the check for a pending id
AddPendingAlways(p, transaction) == Append(p, transaction)

\* P2PNode::add_pending_transaction
add_pending_transaction(p, transaction) ==
    IF ~(\E i \in 1..Len(p) : p[i].id = transaction.id)
    THEN Append(p, transaction)
    ELSE p

\* P2PNode::remove_pending_transaction : retain(|tx| tx.id != transaction_id)
remove_pending_transaction(p, transaction_id) ==
    LET Kept(tx) == tx.id # transaction_id IN SelectSeq(p, Kept)

\* P2PNode::clear_pending_transactions
clear_pending_transactions(p) == <<>>

\* transactions offered to the node; two of them share the id "t2"
PendingTxs ==
    {TxGenesisAlice, TxAliceBob, [TxAliceBob EXCEPT !.amount = Fin(31)],
     TxCoinbase, TxNaN}
PendingIds == {"t1", "t2", "t3", "t9"}

PendingCall(op, transaction, transaction_id) ==
    [op |-> op, transactions |-> <<transaction>>, res |-> Ok, id |-> transaction_id]

AddPending(transaction) ==
    /\ pending' = add_pending_transaction(pending, transaction)
    /\ call' = PendingCall("add_pending_transaction", transaction, transaction.id)
    /\ UNCHANGED <<chain, poh, now, stx, sig, blk, mine, adj>>

RemovePending(transaction_id) ==
    /\ pending' = remove_pending_transaction(pending, transaction_id)
    /\ call' = PendingCall("remove_pending_transaction", TxGenesisAlice, transaction_id)
    /\ UNCHANGED <<chain, poh, now, stx, sig, blk, mine, adj>>

ClearPending ==
    /\ pending' = clear_pending_transactions(pending)
    /\ call' = PendingCall("clear_pending_transactions", TxGenesisAlice, "")
    /\ UNCHANGED <<chain, poh, now, stx, sig, blk, mine, adj>>

PendingInit ==
    /\ Init

PendingNext ==
    \/ \E transaction \in PendingTxs : AddPending(transaction)
    \/ \E transaction_id \in PendingIds : RemovePending(transaction_id)
    \/ ClearPending

PendingSpec == PendingInit /\ [][PendingNext]_vars

(***************************************************************************)
(* Properties of the pending list                                          *)
(***************************************************************************)
NoSharedId(p) == \A i, j \in 1..Len(p) : p[i].id = p[j].id => i = j

\* the positions of p whose transaction has another id than transaction_id
OtherIds(p, transaction_id) == {i \in 1..Len(p) : p[i].id # transaction_id}

\* the i-th smallest element of a set of positions
Nth(S, i) == CHOOSE k \in S : Cardinality({m \in S : m <= k}) = i

\* C23: through any add, remove and clear calls the pending list holds no
\* two transactions with the same id; adding a pending id changes nothing, a
\* new transaction goes to the end, remove deletes exactly the entries with
\* the given id and keeps the order of the others, clear empties the list.
C23_PendingListDeduplicates ==
    [][/\ NoSharedId(pending) /\ NoSharedId(pending')
       /\ call'.op = "add_pending_transaction" =>
            IF \E i \in 1..Len(pending) : pending[i].id = call'.id
            THEN pending' = pending
            ELSE /\ Len(pending') = Len(pending) + 1
                 /\ SubSeq(pending', 1, Len(pending)) = pending
                 /\ pending'[Len(pending')] = call'.transactions[1]
       /\ call'.op = "remove_pending_transaction" =>
            /\ \A i \in 1..Len(pending') : pending'[i].id # call'.id
            /\ Len(pending') = Cardinality(OtherIds(pending, call'.id))
            /\ \A i \in 1..Len(pending') :
                  pending'[i] = pending[Nth(OtherIds(pending, call'.id), i)]
       /\ call'.op = "clear_pending_transactions" => pending' = <<>>]_vars

C23_Witness ==
    /\ call.op = "add_pending_transaction"
    /\ Len(pending) = 2
    /\ call.transactions[1].id = pending[1].id
    /\ call.transactions[1] # pending[1]

(***************************************************************************)
(* Properties of the ledger, continued                                     *)
(***************************************************************************)
\* C24: after Blockchain::new and any add_block calls, successful or failed,
\* poh_tick_count() equals len().
C24_TicksEqualBlocks == poh_tick_count(poh) = len(chain)

\* C25: the proof-of-history sequence can be re-derived from the chain: the
\* genesis block's poh_hash verifies against the genesis seed and its
\* transaction_data(), and every later block's poh_hash verifies against its
\* predecessor's poh_hash and its own transaction_data().
C25_PohRederivableFromChain ==
    /\ verify_sequence(poh, GENESIS_SEED, transaction_data(chain[1]), chain[1].poh_hash)
    /\ \A i \in 2..Len(chain) :
          verify_sequence(poh, chain[i - 1].poh_hash, transaction_data(chain[i]),
                          chain[i].poh_hash)

\* the addresses that appear in the chain
ChainAddresses == Involved(Flatten(chain))

\* the sum of get_balance over a set of addresses
RECURSIVE BalanceSum(_)
BalanceSum(S) ==
    IF S = {} THEN Fin(0)
    ELSE LET a == CHOOSE x \in S : TRUE
         IN FAdd(get_balance(chain, a), BalanceSum(S \ {a}))

\* the chain with one more block that holds a transfer of amount from a to a
WithSelfTransfer(a, amount) ==
    add_block(chain, poh,
              <<Transaction("self", a, a, amount, None, now, None, None)>>, now).chain

\* C26: the balances of all addresses that appear in the chain add up to the
\* amounts sent from "genesis", and a transaction from an address other than
\* "genesis" to itself leaves that address's balance as it was.
C26_ValueConserved ==
    /\ BalanceSum(ChainAddresses) = Sent(chain, "genesis")
    /\ \A a \in {"alice", "miner"}, amount \in {Fin(30), PosInf} :
          get_balance(WithSelfTransfer(a, amount), a) = get_balance(chain, a)

\* C27: after any successful add_block calls with transactions built by
\* Transaction::new, get_balance(a) >= 0 for every address a other than
\* "genesis" and "miner".
C27_NoOverdraft ==
    \A a \in Addresses \ {"genesis", "miner"} :
        LET balance == get_balance(chain, a) IN
        \/ balance.cls = "fin" /\ balance.val >= 0
        \/ balance = PosInf

\* C28: every transaction of every block add_block accepted passes
\* verify_signature().
C28_StoredTransactionsAuthenticated ==
    \A i \in 2..Len(chain) : \A j \in 1..Len(chain[i].transactions) :
        verify_signature(chain[i].transactions[j])

\* C29: the block a successful mine_block returns has difficulty equal to
\* config.difficulty, so its hash starts with block.difficulty '0' characters.
C29_MinedDifficultyRecorded ==
    mine.pc = "done" =>
        /\ MinedBlock.difficulty = mine.config[1].difficulty
        /\ hash_meets_difficulty(MinedBlock.hash,
                                 calculate_target(MinedBlock.difficulty))

\* C30: after any add_block calls no transaction id occurs twice in the
\* chain, within a block or across blocks.
C30_NoTransactionTwice == NoSharedId(Flatten(chain))

====
